---- MODULE Spec2Model ----
(***************************************************************************)
(* rocPRIM device merge sort, host side:                                   *)
(*   rocprim/include/rocprim/device/device_sort_hip.hpp                    *)
(*                                                                         *)
(* The model follows one caller through the two-phase protocol of          *)
(* detail::sort_impl: a capacity query (null temporary_storage), the       *)
(* allocation of the scratch buffer, and the execute call, which enqueues  *)
(* block_sort_kernel, the block_merge_kernel passes and block_copy_kernel  *)
(* on one stream.  The stream runs the queued kernels in order and         *)
(* asynchronously to the host; a kernel starts, runs and completes.  The   *)
(* group sort leaves a chunk in any sorted order of its elements.  The     *)
(* caller may then repeat the execute call with debug_synchronous flipped  *)
(* and another storage_size, against the same runtime behaviour, so that   *)
(* the two runs can be compared.                                           *)
(*                                                                         *)
(* Machine integers are scaled down so that TLC can enumerate them:        *)
(* unsigned int has UIntBits bits and size_t has SizeTBits bits (32 and 64 *)
(* on the real target), BlockSize stands for the 256 of rocprim::sort and  *)
(* Alignment for the default alignment of detail::align_size.  All         *)
(* arithmetic the source does in those types is taken modulo 2^bits.       *)
(***************************************************************************)
EXTENDS Integers, Sequences, FiniteSets, TLC

\* ------------------------------------------------------------------ bounds
UIntBits == 4
SizeTBits == 7
BlockSize == 2
Alignment == 4
MaxData == 5
MaxQueue == 2

UIntMod == 2^UIntBits
SizeTMod == 2^SizeTBits
\* Launches of one call that are recorded (and can be named by the runtime's
\* fault plan); every returning call launches fewer kernels than this.
MaxLog == UIntBits + 2

Keys == {1, 2}
FaultPoints == 0..3

\* ------------------------------------------------------- program constants
\* "storage_size == 0 ? 4 : storage_size"
ZeroStorageBytes == 4

hipSuccess == "hipSuccess"
hipErrorInvalidConfiguration == "hipErrorInvalidConfiguration"
hipErrorLaunchFailure == "hipErrorLaunchFailure"
NoStatus == "none"
NullPtr == -1

Min(a, b) == IF a < b THEN a ELSE b

\* ------------------------------------------------------------ pure helpers
\* ::rocprim::detail::align_size(size) in size_t
AlignSize(n) == ((((n + Alignment - 1) % SizeTMod) \div Alignment) * Alignment) % SizeTMod

\* const size_t keys_bytes = align_size(size * sizeof(key_type));
KeysBytes(n, ks) == AlignSize((n * ks) % SizeTMod)

\* const size_t values_bytes = with_values ? align_size(size * sizeof(value_type)) : 0;
ValuesBytes(n, wv, vs) == IF wv THEN AlignSize((n * vs) % SizeTMod) ELSE 0

QueryStorageSize_NoValues(kb, vb, wv) == IF kb = 0 THEN ZeroStorageBytes ELSE kb
QueryStorageSize_NoZeroGuard(kb, vb, wv) == IF wv THEN (kb + vb) % SizeTMod ELSE kb
\* storage_size = keys_bytes; if(with_values) storage_size += values_bytes;
\* storage_size = storage_size == 0 ? 4 : storage_size;
QueryStorageSize(kb, vb, wv) ==
    LET s == IF wv THEN (kb + vb) % SizeTMod ELSE kb
    IN  IF s = 0 THEN ZeroStorageBytes ELSE s

ExecuteStorageSize_Recomputed(ss, kb, vb) == (kb + vb) % SizeTMod
\* storage_size is assigned only inside if(temporary_storage == nullptr)
\* (lines 160-166); with a buffer the reference keeps the caller's value
ExecuteStorageSize(ss, kb, vb) == ss

\* auto number_of_blocks = (size + block_size - 1)/block_size;   (size_t)
NumberOfBlocks(n) == ((n + BlockSize - 1) % SizeTMod) \div BlockSize

\* const unsigned int grid_size = number_of_blocks;
GridSize(n) == NumberOfBlocks(n) % UIntMod

ValuesBuffer_NoAdvance(ptr, kb, wv) == IF wv THEN ptr ELSE NullPtr
\* ptr += keys_bytes; values_buffer = with_values ? (value_type*)ptr : nullptr;
ValuesBuffer(ptr, kb, wv) == IF wv THEN ptr + kb ELSE NullPtr

LoopCond_Inclusive(blk, n) == blk <= n
\* for(unsigned int block = block_size; block < size; block *= 2)
LoopCond(blk, n) == blk < n

\* block *= 2   (unsigned int)
NextBlock(blk) == (blk * 2) % UIntMod

CopyBackNeeded_Never(ts) == FALSE
CopyBackNeeded_Always(ts) == TRUE
\* if(temporary_store) { ... block_copy_kernel ... }
CopyBackNeeded(ts) == ts

MergeSrc_FromInput(ts) == IF ts THEN "input" ELSE "buffer"
MergeSrc_Swapped(ts) == IF ts THEN "buffer" ELSE "output"
\* temporary_store: keys_output -> keys_buffer, else keys_buffer -> keys_output
MergeSrc(ts) == IF ts THEN "output" ELSE "buffer"
MergeDst_AlwaysBuffer(ts) == "buffer"
MergeDst(ts) == IF ts THEN "buffer" ELSE "output"

AfterPeek_NoSync(error, dbg) == IF error # hipSuccess THEN "return" ELSE "next"
AfterPeek_IgnoreError(error, dbg) == IF dbg THEN "sync" ELSE "next"
AfterPeek_NoPeekInDebug(error, dbg) ==
    IF dbg THEN "sync" ELSE IF error # hipSuccess THEN "return" ELSE "next"
\* auto error = hipPeekAtLastError(); if(error != hipSuccess) return error;
\* if(debug_synchronous) { ... hipStreamSynchronize(stream) ... }
AfterPeek(error, dbg) ==
    IF error # hipSuccess THEN "return" ELSE IF dbg THEN "sync" ELSE "next"

AfterSync_IgnoreError(error) == "next"
\* auto error = hipStreamSynchronize(stream); if(error != hipSuccess) return error;
AfterSync(error) == IF error # hipSuccess THEN "return" ELSE "next"

\* ------------------------------------------------- device kernels (data)
\* An element is a pair <<key, value>>; value 0 is the empty_type placeholder.
\* compare_function(a, b)
Compare(cmp, a, b) == IF cmp = "less" THEN a < b ELSE a > b

\* The ways a group may leave its chunk: every order of the chunk's elements
\* in which no element is followed by one that compares before it. Which of
\* two equivalent keys comes first is the group sort's own business.
Arrangements(cmp, s) ==
    LET n == Len(s)
        perms == {f \in [1..n -> 1..n] : \A i, j \in 1..n : f[i] = f[j] => i = j}
        sorted(t) == \A i \in 1..(n - 1) : ~Compare(cmp, t[i + 1][1], t[i][1])
    IN  {t \in {[i \in 1..n |-> s[f[i]]] : f \in perms} : sorted(t)}

\* standard sorted merge, ties taken from the first (left) run
RECURSIVE MergeSeq(_, _, _)
MergeSeq(cmp, a, b) ==
    IF a = <<>> THEN b
    ELSE IF b = <<>> THEN a
    ELSE IF Compare(cmp, Head(b)[1], Head(a)[1])
         THEN <<Head(b)>> \o MergeSeq(cmp, a, Tail(b))
         ELSE <<Head(a)>> \o MergeSeq(cmp, Tail(a), b)

\* every chunk of w elements of s, from position lo on, sorted on its own:
\* the set of sequences this can give
RECURSIVE SortChunks(_, _, _, _)
SortChunks(cmp, s, w, lo) ==
    IF lo > Len(s) THEN {<<>>}
    ELSE {a \o b : a \in Arrangements(cmp, SubSeq(s, lo, Min(lo + w - 1, Len(s)))),
                   b \in SortChunks(cmp, s, w, lo + w)}

\* every pair of adjacent runs of width w of s, from position lo on, merged
RECURSIVE MergeRuns(_, _, _, _)
MergeRuns(cmp, s, w, lo) ==
    IF lo > Len(s) THEN <<>>
    ELSE MergeSeq(cmp, SubSeq(s, lo, Min(lo + w - 1, Len(s))),
                       SubSeq(s, lo + w, Min(lo + 2 * w - 1, Len(s))))
         \o MergeRuns(cmp, s, w, lo + 2 * w)

\* elements covered by a grid of `grid` groups of BlockSize threads
Covered(n, grid) == Min(n, grid * BlockSize)

\* the groups write their output windows; the rest of dst keeps its content
WriteWindows(res, dst, n, grid) ==
    [i \in 1..Len(dst) |-> IF i <= Covered(n, grid) THEN res[i] ELSE dst[i]]

block_sort_kernel_impl(cmp, src, dst, n, grid) ==
    {WriteWindows(res, dst, n, grid) : res \in SortChunks(cmp, src, BlockSize, 1)}

\* a run width of 0 pairs nothing up: elements are passed through
block_merge_kernel_impl(cmp, src, dst, n, grid, w) ==
    WriteWindows(IF w = 0 THEN src ELSE MergeRuns(cmp, src, w, 1), dst, n, grid)

block_copy_kernel_impl(src, dst, n, grid) == WriteWindows(src, dst, n, grid)

\* the contents a kernel may leave in dst
KernelResult(cmp, k, src, dst, n) ==
    CASE k.stage = "sort"  -> block_sort_kernel_impl(cmp, src, dst, n, k.grid)
      [] k.stage = "merge" -> {block_merge_kernel_impl(cmp, src, dst, n, k.grid, k.width)}
      [] k.stage = "copy"  -> {block_copy_kernel_impl(src, dst, n, k.grid)}

\* ------------------------------------------------------------------ state
VARIABLES
    \* arguments of the call
    size, key_size, value_size, compare_function, debug_synchronous, input,
    \* the runtime's behaviour: the launch it refuses, the kernel that faults
    failLaunch, faultKernel,
    \* the caller
    phase, storage_size, scratch_bytes, first,
    \* locals of sort_impl
    pc, stage, keys_bytes, values_bytes, grid_size, temporary_store,
    keys_buffer, values_buffer, block, ret,
    \* observations of the call
    launches, nsync,
    \* the runtime and device memory
    queue, running, lastError, deviceError, output, buffer

args == <<size, key_size, value_size, compare_function, input, failLaunch, faultKernel>>
caller == <<phase, storage_size, scratch_bytes, first>>
locals == <<keys_bytes, values_bytes, grid_size, temporary_store, keys_buffer,
            values_buffer, block>>
memory == <<output, buffer>>
vars == <<args, debug_synchronous, caller, pc, stage, locals, ret, launches, nsync,
          queue, running, lastError, deviceError, memory>>

\* constexpr bool with_values = !std::is_same<value_type, empty_type>::value;
with_values == value_size # 0

\* ------------------------------------------------------------------- Init
\* device memory nothing has written yet; <<0, 0>> is no element of any input
Junk(n) == [i \in 1..n |-> <<0, 0>>]

\* keys in descending order (cyclically, no key twice in a chunk), each value
\* the element's position
Canonical(n, wv) == [i \in 1..n |-> <<((n - i) % (BlockSize + 1)) + 1, IF wv THEN i ELSE 0>>]

AlignUp(x) == ((x + Alignment - 1) \div Alignment) * Alignment

\* The caller's output arrays and a scratch buffer for as many elements exist
\* in one address space.
Fits(n, ks, vs) == 2 * (AlignUp(n * ks) + AlignUp(n * vs)) < SizeTMod

\* <<sizeof(key_type), sizeof(value_type)>>; a value size of 0 stands for
\* rocprim::empty_type (keys-only sort)
TypePairs == {<<1, 0>>, <<2, 1>>, <<1, 2>>}

NoFirst == [launches |-> <<>>, ret |-> NoStatus, nsync |-> 0]

InitRest ==
    /\ debug_synchronous \in BOOLEAN
    /\ \E f \in FaultPoints, g \in FaultPoints :
          /\ f = 0 \/ g = 0
          /\ failLaunch = f
          /\ faultKernel = g
    /\ phase = "query"
    /\ storage_size = 0
    /\ scratch_bytes = 0
    /\ first = NoFirst
    /\ pc = "idle"
    /\ stage = "none"
    /\ keys_bytes = 0
    /\ values_bytes = 0
    /\ grid_size = 0
    /\ temporary_store = FALSE
    /\ keys_buffer = NullPtr
    /\ values_buffer = NullPtr
    /\ block = 0
    /\ ret = NoStatus
    /\ launches = <<>>
    /\ nsync = 0
    /\ queue = <<>>
    /\ running = {}
    /\ lastError = hipSuccess
    /\ deviceError = hipSuccess
    /\ output = Junk(size)
    /\ buffer = Junk(size)

\* every size and element type, one input per size
InitSizes ==
    /\ size \in 0..(SizeTMod - 1)
    /\ \E t \in TypePairs : key_size = t[1] /\ value_size = t[2]
    /\ Fits(size, key_size, value_size)
    /\ compare_function = "less"
    /\ input = Canonical(size, value_size # 0)

\* every input of a small size, under both orderings
InitData ==
    /\ size \in 0..MaxData
    /\ key_size = 1
    /\ value_size = 1
    /\ compare_function \in {"less", "greater"}
    /\ \E ks \in [1..size -> Keys] : input = [i \in 1..size |-> <<ks[i], i>>]

\* inputs already in order with no two keys alike, under both orderings
InitSorted ==
    /\ size \in 0..MaxData
    /\ key_size = 1
    /\ value_size = 1
    /\ compare_function \in {"less", "greater"}
    /\ input = [i \in 1..size |->
                  <<IF compare_function = "less" THEN i ELSE size + 1 - i, size + 1 - i>>]

Init == (InitSizes \/ InitData \/ InitSorted) /\ InitRest

\* ---------------------------------------------------------------- runtime
\* position of the next launch in the call's record (0 once the record is full)
NextIdx == IF Len(launches) < MaxLog THEN Len(launches) + 1 ELSE 0

LaunchStream_CopyOnNull(st) == IF st = "copy" THEN "null" ELSE "stream"
\* the stream argument of a stage's launch: lines 193, 207, 218 and 231 all
\* pass the caller's stream
LaunchStream(st) == "stream"

Kernel(st, src, dst, w, grid) ==
    [stage |-> st, src |-> src, dst |-> dst, width |-> w, grid |-> grid,
     stream |-> LaunchStream(st), idx |-> NextIdx]

\* hipLaunchKernelGGL(kernel, dim3(grid_size), dim3(block_size), 0, stream, ...)
hipLaunchKernelGGL(k) ==
    /\ Len(queue) < MaxQueue
    /\ LET refused == k.idx # 0 /\ k.idx = failLaunch
       IN  /\ queue' = IF ~refused /\ deviceError = hipSuccess
                       THEN Append(queue, k) ELSE queue
           /\ lastError' = IF refused THEN hipErrorInvalidConfiguration ELSE lastError
    /\ launches' = IF k.idx # 0 THEN Append(launches, k) ELSE launches
    /\ stage' = k.stage
    /\ pc' = "check"
    /\ running' = running

\* hipPeekAtLastError()
hipPeekAtLastError == IF deviceError # hipSuccess THEN deviceError ELSE lastError

Mem(name) == CASE name = "input" -> input [] name = "output" -> output
               [] name = "buffer" -> buffer

\* stream s has neither queued nor running work
StreamIdle(s) ==
    /\ \A i \in 1..Len(queue) : queue[i].stream # s
    /\ \A r \in running : r.stream # s

Faulting(k) == k.idx # 0 /\ k.idx = faultKernel

\* A kernel starts when it is the oldest one queued on its stream and that
\* stream runs nothing; kernels of different streams may overlap.
StreamBegin ==
    /\ \E i \in 1..Len(queue) :
          /\ \A j \in 1..(i - 1) : queue[j].stream # queue[i].stream
          /\ \A r \in running : r.stream # queue[i].stream
          /\ running' = running \cup {queue[i]}
          /\ queue' = SubSeq(queue, 1, i - 1) \o SubSeq(queue, i + 1, Len(queue))
    /\ UNCHANGED <<args, debug_synchronous, caller, pc, stage, locals, ret, launches,
                   nsync, lastError, deviceError, memory>>

\* a running kernel completes: its destination holds one of its results
StreamExecute ==
    /\ \E k \in running :
          /\ ~Faulting(k)
          /\ \E res \in KernelResult(compare_function, k, Mem(k.src), Mem(k.dst), size) :
                /\ output' = IF k.dst = "output" THEN res ELSE output
                /\ buffer' = IF k.dst = "buffer" THEN res ELSE buffer
          /\ running' = running \ {k}
    /\ UNCHANGED <<args, debug_synchronous, caller, pc, stage, locals, ret, launches,
                   nsync, queue, lastError, deviceError>>

\* a running kernel faults; the work queued behind it is lost
StreamFault ==
    /\ \E k \in running : Faulting(k)
    /\ deviceError' = hipErrorLaunchFailure
    /\ queue' = <<>>
    /\ running' = {}
    /\ UNCHANGED <<args, debug_synchronous, caller, pc, stage, locals, ret, launches,
                   nsync, lastError, memory>>

\* ------------------------------------------------------------- the caller
\* sort_impl(nullptr, storage_size, ...): lines 150-168
QueryCall ==
    /\ phase = "query"
    /\ keys_bytes' = KeysBytes(size, key_size)
    /\ values_bytes' = ValuesBytes(size, with_values, value_size)
    /\ storage_size' = QueryStorageSize(keys_bytes', values_bytes', with_values)
    /\ ret' = hipSuccess
    /\ pc' = "done"
    /\ phase' = "alloc"
    /\ UNCHANGED <<args, debug_synchronous, scratch_bytes, first, stage, grid_size,
                   temporary_store, keys_buffer, values_buffer, block, launches, nsync,
                   queue, running, lastError, deviceError, memory>>

\* hipMalloc(&temporary_storage, storage_size)
Allocate ==
    /\ phase = "alloc"
    /\ scratch_bytes' = storage_size
    /\ phase' = "execute"
    /\ pc' = "idle"
    /\ ret' = NoStatus
    /\ UNCHANGED <<args, debug_synchronous, storage_size, first, stage, locals,
                   launches, nsync, queue, running, lastError, deviceError, memory>>

\* ------------------------------------------------------ sort_impl, execute
\* lines 150-156 and 170-196: the locals, then the block_sort_kernel launch.
\* Nothing guards size == 0: grid_size is then 0 and the launch is issued all
\* the same (the runtime accepts it as an empty grid or refuses it).
ExecuteCall ==
    /\ phase \in {"execute", "again"}
    /\ pc = "idle"
    /\ keys_bytes' = KeysBytes(size, key_size)
    /\ values_bytes' = ValuesBytes(size, with_values, value_size)
    /\ grid_size' = GridSize(size)
    /\ temporary_store' = FALSE
    /\ keys_buffer' = 0
    /\ values_buffer' = ValuesBuffer(0, keys_bytes', with_values)
    /\ storage_size' = ExecuteStorageSize(storage_size, keys_bytes', values_bytes')
    /\ hipLaunchKernelGGL(Kernel("sort", "input", "output", 0, grid_size'))
    /\ UNCHANGED <<args, debug_synchronous, phase, scratch_bytes, first, block, ret,
                   nsync, deviceError, memory>>

\* the statement after a stage's macro: the for-init, the for-increment, or
\* the final return
Advance ==
    /\ block' = CASE stage = "sort"  -> BlockSize % UIntMod
                  [] stage = "merge" -> NextBlock(block)
                  [] OTHER -> block
    /\ pc' = IF stage = "copy" THEN "done" ELSE "loop"
    /\ ret' = IF stage = "copy" THEN hipSuccess ELSE ret

Return(error) ==
    /\ ret' = error
    /\ pc' = "done"
    /\ block' = block

\* ROCPRIM_DETAIL_HIP_SYNC_AND_RETURN_ON_ERROR, lines 116-118
PeekAtLastError ==
    /\ pc = "check"
    /\ LET error == hipPeekAtLastError
           to == AfterPeek(error, debug_synchronous)
       IN  CASE to = "return" -> Return(error)
             [] to = "sync"   -> pc' = "sync" /\ UNCHANGED <<block, ret>>
             [] to = "next"   -> Advance
    /\ UNCHANGED <<args, debug_synchronous, caller, stage, keys_bytes, values_bytes,
                   grid_size, temporary_store, keys_buffer, values_buffer, launches,
                   nsync, queue, running, lastError, deviceError, memory>>

\* ROCPRIM_DETAIL_HIP_SYNC_AND_RETURN_ON_ERROR, lines 120-125: the blocking
\* wait ends when the stream has no work left
StreamSynchronize ==
    /\ pc = "sync"
    /\ StreamIdle("stream")
    /\ nsync' = Min(nsync + 1, MaxLog)
    /\ LET error == deviceError
       IN  IF AfterSync(error) = "return" THEN Return(error) ELSE Advance
    /\ UNCHANGED <<args, debug_synchronous, caller, stage, keys_bytes, values_bytes,
                   grid_size, temporary_store, keys_buffer, values_buffer, launches,
                   queue, running, lastError, deviceError, memory>>

\* lines 199-223: one iteration of the merge loop
MergeLaunch ==
    /\ pc = "loop"
    /\ LoopCond(block, size)
    /\ temporary_store' = ~temporary_store
    /\ hipLaunchKernelGGL(Kernel("merge", MergeSrc(temporary_store'),
                                 MergeDst(temporary_store'), block, grid_size))
    /\ UNCHANGED <<args, debug_synchronous, caller, keys_bytes, values_bytes, grid_size,
                   keys_buffer, values_buffer, block, ret, nsync, deviceError, memory>>

\* lines 226-235: the loop is over and the result is in the scratch buffer
CopyLaunch ==
    /\ pc = "loop"
    /\ ~LoopCond(block, size)
    /\ CopyBackNeeded(temporary_store)
    /\ hipLaunchKernelGGL(Kernel("copy", "buffer", "output", 0, grid_size))
    /\ UNCHANGED <<args, debug_synchronous, caller, locals, ret, nsync, deviceError,
                   memory>>

\* lines 226 and 238: the loop is over and the result is in the output
ReturnSuccess ==
    /\ pc = "loop"
    /\ ~LoopCond(block, size)
    /\ ~CopyBackNeeded(temporary_store)
    /\ ret' = hipSuccess
    /\ pc' = "done"
    /\ UNCHANGED <<args, debug_synchronous, caller, stage, locals, launches, nsync,
                   queue, running, lastError, deviceError, memory>>

\* The caller waits for the stream, then repeats the execute call with
\* debug_synchronous flipped and 0 in storage_size, with the same scratch
\* buffer, from the same memory contents and against a runtime that behaves
\* the same.
CallAgain ==
    /\ phase = "execute"
    /\ pc = "done"
    /\ queue = <<>>
    /\ running = {}
    /\ first' = [launches |-> launches, ret |-> ret, nsync |-> nsync]
    /\ debug_synchronous' = ~debug_synchronous
    /\ phase' = "again"
    /\ pc' = "idle"
    /\ stage' = "none"
    /\ ret' = NoStatus
    /\ launches' = <<>>
    /\ nsync' = 0
    /\ lastError' = hipSuccess
    /\ deviceError' = hipSuccess
    /\ output' = Junk(size)
    /\ buffer' = Junk(size)
    /\ storage_size' = 0
    /\ UNCHANGED <<args, scratch_bytes, locals, queue, running>>

Next ==
    \/ QueryCall
    \/ Allocate
    \/ ExecuteCall
    \/ PeekAtLastError
    \/ StreamSynchronize
    \/ MergeLaunch
    \/ CopyLaunch
    \/ ReturnSuccess
    \/ StreamBegin
    \/ StreamExecute
    \/ StreamFault
    \/ CallAgain

Spec == Init /\ [][Next]_vars

\* For termination: every size, keys only, and at most a failure of the first
\* launch or of the first kernel.
InitTermination ==
    /\ InitSizes
    /\ InitRest
    /\ value_size = 0
    /\ failLaunch <= 1
    /\ faultKernel <= 1

\* the host thread and the stream both keep running
FairSpec == InitTermination /\ [][Next]_vars /\ WF_vars(Next)

\* ================================================================= claims
Executing == phase \in {"execute", "again"} /\ pc # "idle"
Returned == Executing /\ pc = "done"
Drained == queue = <<>> /\ running = {} /\ deviceError = hipSuccess
NoFailure == failLaunch = 0 /\ faultKernel = 0

StageCount(st) == Cardinality({i \in DOMAIN launches : launches[i].stage = st})
Merges == StageCount("merge")
HasCopy == StageCount("copy") > 0
TouchesScratch ==
    \E i \in DOMAIN launches : launches[i].src = "buffer" \/ launches[i].dst = "buffer"

Range(s) == {s[i] : i \in DOMAIN s}
Count(s, x) == Cardinality({i \in DOMAIN s : s[i] = x})
IsPermutation(s, t) ==
    /\ Len(s) = Len(t)
    /\ \A x \in Range(s) \cup Range(t) : Count(s, x) = Count(t, x)
IsSorted(cmp, s) ==
    \A i \in 1..(Len(s) - 1) : ~Compare(cmp, s[i + 1][1], s[i][1])

\* smallest k >= 0 with BlockSize * 2^k >= n
MinPasses(n) ==
    CHOOSE k \in 0..SizeTBits :
        /\ BlockSize * 2^k >= n
        /\ \A j \in 0..(k - 1) : BlockSize * 2^j < n

\* C1: once the execute call has returned success and the stream has drained
\* without a fault, no adjacent pair of output keys violates the predicate and
\* the output <<key, value>> pairs are a permutation of the input pairs.
C1_SortedPermutation ==
    (Returned /\ ret = hipSuccess /\ Drained) =>
        /\ IsSorted(compare_function, output)
        /\ IsPermutation(output, input)

C1_Witness ==
    /\ Returned /\ ret = hipSuccess /\ Drained
    /\ size = MaxData
    /\ ~IsSorted(compare_function, input)
    /\ Merges >= 2
    /\ output # input

\* C2: the query call leaves storage_size = align(size * sizeof(key)) plus,
\* only with values, align(size * sizeof(value)) whenever that sum is not 0,
\* launches nothing, waits for nothing, touches no memory and returns success.
C2_QueryStorageSize ==
    phase = "alloc" =>
        LET total == AlignUp(size * key_size)
                     + (IF with_values THEN AlignUp(size * value_size) ELSE 0)
        IN  /\ total # 0 => storage_size = total
            /\ launches = <<>>
            /\ queue = <<>> /\ running = {}
            /\ nsync = 0
            /\ output = Junk(size) /\ buffer = Junk(size)
            /\ ret = hipSuccess

C2_Witness ==
    /\ phase = "alloc"
    /\ debug_synchronous
    /\ with_values
    /\ size > 0
    /\ storage_size > AlignUp(size * key_size)

\* C3: the byte count a query leaves in storage_size is never 0, and it is 4
\* for size 0.
C3_QueryNonZero ==
    phase = "alloc" =>
        /\ storage_size > 0
        /\ size = 0 => storage_size = 4

C3_Witness == phase = "alloc" /\ size = 0 /\ storage_size = 4

\* C4: an execute call with size 0 enqueues no work and returns success.
C4_ZeroSizeNoOp ==
    (Executing /\ size = 0) =>
        /\ launches = <<>>
        /\ queue = <<>>
        /\ pc = "done" => ret = hipSuccess

\* C5: the host step that sees a non-success status from a stage's
\* hipPeekAtLastError, or from its hipStreamSynchronize, returns exactly that
\* status and launches nothing; after the return the call launches nothing more.
C5_FailFast ==
    [][ /\ (pc = "check" /\ pc' # pc /\ hipPeekAtLastError # hipSuccess) =>
               /\ pc' = "done"
               /\ ret' = hipPeekAtLastError
               /\ launches' = launches
               /\ queue' = queue
        /\ (pc = "sync" /\ pc' # pc /\ deviceError # hipSuccess) =>
               /\ pc' = "done"
               /\ ret' = deviceError
               /\ launches' = launches
               /\ queue' = queue
        /\ (Returned /\ phase' = phase) =>
               /\ pc' = "done"
               /\ ret' = ret
               /\ launches' = launches
      ]_vars

C5_Witness ==
    /\ Returned
    /\ debug_synchronous
    /\ ret = hipErrorLaunchFailure
    /\ Len(launches) = 2
    /\ size > 2 * BlockSize

\* C6 (as claimed): the repeated call, with debug_synchronous flipped and the
\* same runtime behaviour, launches the same kernels and returns the same status.
C6_SameControlFlow ==
    (phase = "again" /\ pc = "done") =>
        /\ launches = first.launches
        /\ ret = first.ret

\* C6 (amended): when no enqueued kernel faults while executing, the repeated
\* call, with debug_synchronous flipped and the same launch refusals, launches
\* the same kernels and returns the same status.
C6_SameControlFlowNoFault ==
    (phase = "again" /\ pc = "done" /\ faultKernel = 0) =>
        /\ launches = first.launches
        /\ ret = first.ret

C6_Witness ==
    /\ phase = "again" /\ pc = "done"
    /\ faultKernel = 0
    /\ failLaunch = 3
    /\ ret = hipErrorInvalidConfiguration
    /\ first.ret = ret
    /\ Len(launches) = 3
    /\ first.launches = launches

\* C7: block_copy_kernel is launched only after an odd number of merge passes
\* (temporary_store true); a call that returns success has launched it iff the
\* number of merge passes is odd, and its last launch writes the output.
C7_CopyBackIffOdd ==
    Executing =>
        /\ HasCopy => (Merges % 2 = 1 /\ temporary_store)
        /\ (pc = "done" /\ ret = hipSuccess) =>
               /\ HasCopy <=> (Merges % 2 = 1)
               /\ temporary_store <=> (Merges % 2 = 1)
               /\ StageCount("copy") <= 1
               /\ launches # <<>>
               /\ launches[Len(launches)].dst = "output"
               /\ HasCopy => launches[Len(launches)].stage = "copy"

C7_Witness ==
    /\ Returned /\ ret = hipSuccess
    /\ Merges = 1
    /\ HasCopy
    /\ launches[Len(launches)].src = "buffer"

\* C8: in an execute call without failures, the merge passes number the
\* smallest k with BlockSize * 2^k >= size: never more, and exactly k at the
\* return; size <= BlockSize launches the group sort alone.
C8_MergePassCount ==
    (Executing /\ NoFailure) =>
        /\ Merges <= MinPasses(size)
        /\ pc = "done" =>
               /\ Merges = MinPasses(size)
               /\ StageCount("sort") = 1
               /\ size <= BlockSize => Len(launches) = 1

\* C9: every execute call returns.
C9_Terminates == (phase \in {"execute", "again"}) ~> (pc = "done")

\* C10: with a scratch buffer of the queried size, the keys region holds size
\* keys from offset 0, the values region (only with values) holds size values
\* from the end of the keys region, and both lie within the scratch buffer.
C10_ScratchInBounds ==
    Executing =>
        /\ phase = "execute" => scratch_bytes = storage_size
        /\ keys_buffer = 0
        /\ keys_bytes >= size * key_size
        /\ keys_buffer + size * key_size <= scratch_bytes
        /\ with_values =>
               /\ values_bytes >= size * value_size
               /\ values_buffer >= keys_buffer + size * key_size
               /\ values_buffer = keys_bytes
               /\ values_buffer + size * value_size <= scratch_bytes
        /\ ~with_values => (values_buffer = NullPtr /\ values_bytes = 0)
        /\ keys_bytes + values_bytes <= scratch_bytes

C10_Witness ==
    /\ Returned /\ ret = hipSuccess
    /\ with_values
    /\ key_size = 2
    /\ TouchesScratch
    /\ HasCopy
    /\ values_buffer + size * value_size <= scratch_bytes

\* no two keys of s are equivalent under the predicate
NoEquivalentKeys(cmp, s) ==
    \A i, j \in 1..Len(s) :
        i # j => (Compare(cmp, s[i][1], s[j][1]) \/ Compare(cmp, s[j][1], s[i][1]))

SortedCallDone ==
    /\ Returned /\ ret = hipSuccess /\ Drained
    /\ IsSorted(compare_function, input)

\* C11: a sort of a sequence that is already sorted under the predicate leaves
\* in the output exactly the input, keys and paired values position by
\* position, also when several keys are equivalent and carry different values.
C11_Idempotent == SortedCallDone => output = input

\* C11, amended: a sort of an already sorted sequence leaves every key at its
\* position, and leaves every paired value at its position too when no two
\* keys are equivalent under the predicate.
C11_IdempotentKeys ==
    SortedCallDone =>
        /\ \A i \in 1..size : output[i][1] = input[i][1]
        /\ NoEquivalentKeys(compare_function, input) => output = input

C11_Witness ==
    /\ SortedCallDone
    /\ size > BlockSize
    /\ NoEquivalentKeys(compare_function, input)
    /\ Merges >= 1
    /\ output = input

\* the record of the call's launches is complete
LogComplete == Len(launches) < MaxLog

Other(name) == IF name = "output" THEN "buffer" ELSE "output"

\* C12: every merge pass reads the buffer the stage launched just before it
\* wrote and writes the other of output and scratch; the first pass reads the
\* output and writes scratch; and while the stages launched are the group sort
\* and merge passes, temporary_store is true exactly when the stage launched
\* last writes scratch.
C12_PingPong ==
    /\ \A i \in DOMAIN launches :
          launches[i].stage = "merge" =>
              /\ i > 1
              /\ launches[i].src = launches[i - 1].dst
              /\ launches[i].src \in {"output", "buffer"}
              /\ launches[i].dst = Other(launches[i].src)
              /\ i = 2 => (launches[i].src = "output" /\ launches[i].dst = "buffer")
    /\ (Executing /\ LogComplete /\ launches # <<>> /\ ~HasCopy) =>
          (temporary_store <=> launches[Len(launches)].dst = "buffer")

C12_Witness ==
    /\ Executing /\ LogComplete
    /\ Merges = 3
    /\ launches[Len(launches)].stage = "merge"
    /\ launches[Len(launches)].src = "output"
    /\ launches[Len(launches)].dst = "buffer"
    /\ temporary_store

\* kernels of the call that have completed (no failure, complete record)
Completed == Len(launches) - Len(queue) - Cardinality(running)

\* s is made of sorted runs of width w (the last one may be shorter)
RunsSorted(cmp, s, w) ==
    \A i \in 1..(Len(s) - 1) : (i % w # 0) => ~Compare(cmp, s[i + 1][1], s[i][1])

\* C13: when the group sort and k merge passes have completed, the buffer the
\* last of them wrote consists of sorted runs of width
\* min(block_size * 2^k, size); and the k-th merge pass is launched with run
\* width block_size * 2^(k-1).
C13_RunWidth ==
    /\ (Executing /\ NoFailure /\ LogComplete /\ size > 0 /\ Completed >= 1
          /\ launches[Completed].stage # "copy") =>
          RunsSorted(compare_function, Mem(launches[Completed].dst),
                     Min(BlockSize * 2^(Completed - 1), size))
    /\ \A i \in DOMAIN launches :
          launches[i].stage = "merge" => launches[i].width = BlockSize * 2^(i - 2)

\* C14: in every execute call the group sort is launched exactly once and
\* before every merge pass, the merge passes are launched in strictly
\* increasing width order, the copy-back is launched at most once and after
\* the last merge pass, and every launch goes to the caller's stream.
C14_StageOrder ==
    Executing =>
        /\ launches # <<>>
        /\ \A i \in DOMAIN launches : launches[i].stage = "sort" <=> i = 1
        /\ \A i, j \in DOMAIN launches :
              (i < j /\ launches[i].stage = "merge" /\ launches[j].stage = "merge")
                  => launches[i].width < launches[j].width
        /\ \A i \in DOMAIN launches : launches[i].stage = "copy" => i = Len(launches)
        /\ \A i \in DOMAIN launches : launches[i].stream = "stream"

\* ceil(n / BlockSize) over the integers
CeilBlocks(n) == (n + BlockSize - 1) \div BlockSize

\* C15: every stage of a call is launched with the same grid size, and that
\* grid size is ceil(size / block_size), for every size.
C15_GridSize ==
    Executing =>
        \A i \in DOMAIN launches : launches[i].grid = CeilBlocks(size)

\* C16: with debug_synchronous false the call never waits for the stream.
\* With debug_synchronous true, a stage is launched only when every stage
\* launched before it has been followed by a wait that has completed (the
\* stream is idle), a call that returns success has waited after every one of
\* its stages, and a failure status that the wait returns is returned by the
\* call at once.
C16_DebugSync ==
    [][ (phase \in {"execute", "again"} /\ phase' = phase) =>
            /\ ~debug_synchronous => (nsync = 0 /\ nsync' = 0)
            /\ (debug_synchronous /\ launches' # launches) =>
                   (StreamIdle("stream") /\ nsync = Len(launches))
            /\ (debug_synchronous /\ LogComplete /\ pc = "done" /\ ret = hipSuccess) =>
                   (StreamIdle("stream") /\ nsync = Len(launches))
            /\ (pc = "sync" /\ pc' # "sync" /\ deviceError # hipSuccess) =>
                   (pc' = "done" /\ ret' = deviceError /\ launches' = launches)
      ]_vars

C16_Witness ==
    /\ debug_synchronous
    /\ Returned
    /\ faultKernel = 3
    /\ ret = hipErrorLaunchFailure
    /\ Len(launches) = 3
    /\ nsync = 3

\* a call without debug_synchronous that has returned while its stages are
\* still pending on the stream
C16_ReturnedWhilePending ==
    /\ ~debug_synchronous
    /\ Returned /\ ret = hipSuccess
    /\ nsync = 0
    /\ Len(queue) + Cardinality(running) >= 2

Buffers(k) == {k.src, k.dst}
Pending == running \cup Range(queue)

\* C17: no two stages of a call that access a common buffer run at the same
\* time, and while a stage runs, no stage launched before it is still queued
\* or running (so the stage that wrote the buffer it reads has completed);
\* without debug_synchronous this holds although the host never waits.
C17_StreamOrder ==
    /\ \A k1, k2 \in running : k1 # k2 => Buffers(k1) \cap Buffers(k2) = {}
    /\ \A k \in running : \A r \in Pending :
          (k.idx # 0 /\ r.idx # 0) => r.idx >= k.idx
    /\ (Executing /\ ~debug_synchronous) => nsync = 0

C17_Witness ==
    /\ ~debug_synchronous
    /\ nsync = 0
    /\ queue # <<>>
    /\ \E k \in running :
          /\ k.stage = "merge"
          /\ Head(queue).src = k.dst
          /\ Head(queue).idx = k.idx + 1

\* C18: no step of an execute call changes storage_size, whatever value the
\* caller passed and however the call returns; and the call goes ahead with
\* its launches also when that value is smaller than the bytes it needs.
C18_StorageSizeKept ==
    [][ (phase \in {"execute", "again"} /\ phase' = phase) =>
            /\ storage_size' = storage_size
            /\ pc' # "idle" => launches' # <<>>
      ]_vars

C18_Witness ==
    /\ phase = "again"
    /\ Returned /\ ret = hipSuccess /\ Drained
    /\ storage_size = 0
    /\ storage_size < keys_bytes + values_bytes
    /\ with_values
    /\ HasCopy
    /\ IsSorted(compare_function, output)

\* stage k leaves the caller's input alone unless it is the group sort, which
\* only reads it
InputOnlyReadBySort(k) ==
    /\ k.dst # "input"
    /\ k.src = "input" => k.stage = "sort"
    /\ k.stage \in {"merge", "copy"} => Buffers(k) \subseteq {"output", "buffer"}

\* C19: the input arrays are read by the group-sort stage only and are the
\* destination of no stage; merge passes and the copy-back read and write
\* nothing but the output and the scratch buffer.
C19_InputReadOnly ==
    /\ \A i \in DOMAIN launches : InputOnlyReadBySort(launches[i])
    /\ \A k \in Pending : InputOnlyReadBySort(k)

C19_Witness ==
    /\ Returned /\ ret = hipSuccess /\ Drained
    /\ with_values
    /\ launches[1].src = "input"
    /\ Merges = 1
    /\ HasCopy

\* C20: the scratch buffer is accessed only by calls that run at least one
\* merge pass, so by no stage when size <= block_size; and a merge pass that
\* writes the scratch buffer is followed, in a call that returns success, by a
\* merge pass or a copy-back that reads it.
C20_ScratchUse ==
    /\ TouchesScratch => Merges >= 1
    /\ size <= BlockSize =>
          /\ ~TouchesScratch
          /\ \A k \in Pending : "buffer" \notin Buffers(k)
    /\ \A i \in DOMAIN launches :
          (launches[i].dst = "buffer" /\ i < Len(launches)) =>
              launches[i + 1].src = "buffer"
    /\ (Returned /\ ret = hipSuccess /\ LogComplete) =>
          \A i \in DOMAIN launches : launches[i].dst = "buffer" => i < Len(launches)

C20_Witness ==
    /\ Returned /\ ret = hipSuccess /\ Drained
    /\ size > BlockSize
    /\ Merges = 2
    /\ launches[2].dst = "buffer"
    /\ launches[3].src = "buffer"
    /\ ~HasCopy

====
